---- MODULE Spec2Model ----
(***************************************************************************)
(* Model of batch_csm_image_to_3d.py: a batch of images is converted to    *)
(* 3D meshes by a remote service.  main() lists the images, submits one    *)
(* process_image call per image to a ThreadPoolExecutor(max_workers=3),    *)
(* collects the results with as_completed and prints a summary.            *)
(*                                                                         *)
(* Python values: None is the empty tuple; a string that the code tests    *)
(* for truth (an error text, a session code, a URL) is a one-element       *)
(* tuple, a path is a tuple of its parts, a file name is <<base, ext>>.    *)
(* An exception leaving a function is the field exc of what it returns.    *)
(***************************************************************************)
EXTENDS Integers, Sequences, FiniteSets, TLC

\* ----------------------------------------------------------------- bounds
\* number of entries of content/concepts at batch start
MaxFiles == 4
\* the longest run of "still processing" answers a remote session gives
\* before its final answer
MaxPending == 2
\* largest poll interval and timeout explored for poll_session on its own
MaxInterval == 10
MaxTimeout == 35

\* ------------------------------------------------------ program constants
CONCEPTS_DIR == "content/concepts"
PROCESSED_DIR == "content/processed"
RESULT_DIR == "content/result"
max_workers == 3
default_poll_interval == 10
default_timeout == 600

None == <<>>

\* Python truthiness of a value that is None or a string
Truthy(x) == x # None /\ x # <<"">>

\* ------------------------------------------------------------ file names
Exts == <<".png", ".jpg", ".txt", ".PNG">>

\* k-th entry of the listing of content/concepts: <<base name, extension>>
DirEntry(k) == <<(k + 1) \div 2, Exts[((k - 1) % 4) + 1]>>

\* str.lower on an extension
lower(e) == CASE e = ".PNG" -> ".png" [] e = ".JPG" -> ".jpg" [] OTHER -> e

IsImage(f) == lower(f[2]) \in {".png", ".jpg"}

\* get_image_files: the entries of the listing that end in .png or .jpg,
\* in listing order
RECURSIVE get_image_files(_)
get_image_files(n) ==
    IF n = 0 THEN <<>>
    ELSE IF IsImage(DirEntry(n)) THEN Append(get_image_files(n - 1), DirEntry(n))
         ELSE get_image_files(n - 1)

\* os.path.join(RESULT_DIR, f"{os.path.splitext(img)[0]}.glb")
out_path_of(img) == <<RESULT_DIR, img[1], ".glb">>

\* ------------------------------------------------------- remote responses
\* what requests.post(API_BASE) may give: an exception, or a response with
\* a status code and a body
SubmitBodies == {"malformed", "no_data", "no_session_code",
                 "empty_session_code", "session_code"}
SubmitResponses ==
    {[exc |-> TRUE, status_code |-> 500, body |-> "malformed"]}
    \cup [exc : {FALSE}, status_code : {500}, body : {"malformed"}]
    \cup [exc : {FALSE}, status_code : {200, 201}, body : SubmitBodies]

\* what one requests.get(API_BASE/session_code) may give
PollBodies == {"malformed", "null_data", "no_data", "processing",
               "complete_mesh", "complete_empty_mesh", "complete_no_mesh",
               "failed"}
PollResponses ==
    {[exc |-> TRUE, status_code |-> 500, body |-> "malformed"]}
    \cup [exc : {FALSE}, status_code : {201, 500}, body : {"malformed"}]
    \cup [exc : {FALSE}, status_code : {200}, body : PollBodies]

Processing == [exc |-> FALSE, status_code |-> 200, body |-> "processing"]

\* the answers of a session to successive status requests: `pending`
\* times Processing, then `final` for ever
PollStreams == [pending : 0..MaxPending, final : PollResponses]
StreamAt(stream, n) == IF n <= stream.pending THEN Processing ELSE stream.final

\* what requests.get(mesh_url, stream=True) and the copy to disk may give
DownloadBodies == {"full", "interrupted"}
DownloadResponses ==
    {[exc |-> TRUE, status_code |-> 500, body |-> "interrupted"]}
    \cup [exc : {FALSE}, status_code : {201, 500}, body : {"interrupted"}]
    \cup [exc : {FALSE}, status_code : {200}, body : DownloadBodies]

\* what shutil.move may do
MoveResults == {"moved", "oserror"}

\* ------------------------------------------------------- start_session
start_session_key_present(resp) ==
    IF resp.exc
    THEN [exc |-> TRUE, session_code |-> None, err |-> None]
    ELSE IF resp.status_code \notin {200, 201}
    THEN [exc |-> FALSE, session_code |-> None, err |-> <<"Failed to start session">>]
    ELSE IF resp.body = "malformed"
    THEN [exc |-> TRUE, session_code |-> None, err |-> None]
    ELSE IF resp.body \in {"no_data", "no_session_code"}
    THEN [exc |-> FALSE, session_code |-> None, err |-> <<"Unexpected response">>]
    ELSE IF resp.body = "empty_session_code"
    THEN [exc |-> FALSE, session_code |-> <<"">>, err |-> None]
    ELSE [exc |-> FALSE, session_code |-> <<"session_code">>, err |-> None]
start_session(resp) ==
    IF resp.exc
    THEN [exc |-> TRUE, session_code |-> None, err |-> None]
    ELSE IF resp.status_code \notin {200, 201}
    THEN [exc |-> FALSE, session_code |-> None, err |-> <<"Failed to start session">>]
    ELSE IF resp.body = "malformed"
    THEN [exc |-> TRUE, session_code |-> None, err |-> None]
    ELSE IF resp.body \in {"no_data", "no_session_code", "empty_session_code"}
    THEN [exc |-> FALSE, session_code |-> None, err |-> <<"Unexpected response">>]
    ELSE [exc |-> FALSE, session_code |-> <<"session_code">>, err |-> None]

\* --------------------------------------------------------- poll_session
\* session_status and mesh_url_glb of a decoded status body
session_status(body) ==
    CASE body \in {"complete_mesh", "complete_empty_mesh", "complete_no_mesh"} -> "complete"
      [] body = "failed" -> "failed"
      [] body = "processing" -> "processing"
      [] OTHER -> "None"

mesh_url_glb(body) ==
    CASE body = "complete_mesh" -> <<"mesh_url">>
      [] body = "complete_empty_mesh" -> <<"">>
      [] OTHER -> None

PollRet(exc, data, err, requests, waited) ==
    [exc |-> exc, data |-> data, err |-> err, requests |-> requests, waited |-> waited]

\* line 96: the loop test of poll_session
PollLoopGuard_inclusive(waited, timeout) == waited <= timeout
PollLoopGuard(waited, timeout) == waited < timeout

\* lines 97-109: one status request that ends the loop, as request number n
poll_return(resp, n, waited) ==
    IF resp.exc
    THEN PollRet(TRUE, None, None, n, waited)
    ELSE IF resp.status_code # 200
    THEN PollRet(FALSE, None, <<"Failed to get session status">>, n, waited)
    ELSE IF resp.body \in {"malformed", "null_data"}
    THEN PollRet(TRUE, None, None, n, waited)
    ELSE IF session_status(resp.body) = "complete"
    THEN PollRet(FALSE, <<mesh_url_glb(resp.body)>>, None, n, waited)
    ELSE PollRet(FALSE, None, <<"Session failed.">>, n, waited)

\* lines 97-111: the status request reaches the sleep at the end of the body
poll_sleeps_retrying(resp) ==
    /\ ~resp.exc
    /\ \/ resp.status_code # 200
       \/ /\ resp.body \notin {"malformed", "null_data"}
          /\ session_status(resp.body) \notin {"complete", "failed"}
poll_sleeps(resp) ==
    /\ ~resp.exc
    /\ resp.status_code = 200
    /\ resp.body \notin {"malformed", "null_data"}
    /\ session_status(resp.body) \notin {"complete", "failed"}

\* the while loop of poll_session from the state (waited, requests made)
RECURSIVE poll_loop(_, _, _, _, _)
poll_loop(stream, poll_interval, timeout, waited, requests) ==
    IF ~PollLoopGuard(waited, timeout)
    THEN PollRet(FALSE, None, <<"Timeout waiting for session to complete.">>, requests, waited)
    ELSE IF poll_sleeps(StreamAt(stream, requests + 1))
    THEN poll_loop(stream, poll_interval, timeout, waited + poll_interval, requests + 1)
    ELSE poll_return(StreamAt(stream, requests + 1), requests + 1, waited)

poll_session_request_first(stream, poll_interval, timeout) ==
    IF poll_sleeps(StreamAt(stream, 1))
    THEN poll_loop(stream, poll_interval, timeout, poll_interval, 1)
    ELSE poll_return(StreamAt(stream, 1), 1, 0)
poll_session(stream, poll_interval, timeout) ==
    poll_loop(stream, poll_interval, timeout, 0, 0)

\* line 138: poll_session(session_code), with the default interval and
\* timeout, against each stream of answers
\* (@@ makes the table a value computed once)
default_poll ==
    [stream \in PollStreams |->
        poll_session(stream, default_poll_interval, default_timeout)] @@ <<>>

\* -------------------------------------------------------- download_file
\* err, and what the call leaves at out_path: "untouched", "partial", "complete"
download_file(resp) ==
    IF resp.exc
    THEN [exc |-> TRUE, err |-> None, file |-> "untouched"]
    ELSE IF resp.status_code # 200
    THEN [exc |-> FALSE, err |-> <<"Failed to download file">>, file |-> "untouched"]
    ELSE IF resp.body = "interrupted"
    THEN [exc |-> TRUE, err |-> None, file |-> "partial"]
    ELSE [exc |-> FALSE, err |-> None, file |-> "complete"]

\* --------------------------------------------------------------- state
VARIABLES
    concepts_dir,   \* file names in content/concepts
    processed_dir,  \* file names in content/processed
    result_dir,     \* out path -> "absent", "partial" or "complete"
    images,         \* main: the list get_image_files() returned
    mainpc,         \* main: "pool", "unwind", "print", "done" or "crashed"
    submitted,      \* main: number of images handed to executor.submit
    yielded,        \* main: the futures as_completed has yielded
    summary,        \* main: the list of result rows
    printed,        \* the rows of the summary table on standard output
    taken,          \* executor: number of work items taken off its queue
    worker,         \* executor: the job each worker thread runs, 0 when idle
    pc,             \* process_image of job i: where it is
    session_data,   \* process_image of job i: what poll_session returned
    outcome,        \* future of job i: the row process_image returned
    trace,          \* job i: what each call of process_image came back with
    p_pc,           \* poll_session on its own: "idle", "call" or "returned"
    p_in,           \* poll_session on its own: stream, poll_interval, timeout
    p_out,          \* poll_session on its own: what it returned
    s_in,           \* start_session on its own: the response to its request
    s_out,          \* start_session on its own: what it returned
    d_in,           \* download_file on its own: the response to its request
    d_out           \* download_file on its own: what it returned and left

vars == <<concepts_dir, processed_dir, result_dir, images, mainpc, submitted,
          yielded, summary, printed, taken, worker, pc, session_data, outcome,
          trace, p_pc, p_in, p_out, s_in, s_out, d_in, d_out>>

fsvars == <<concepts_dir, processed_dir, result_dir>>
mainvars == <<images, mainpc, submitted, yielded, summary, printed>>
callvars == <<s_in, s_out, d_in, d_out>>
pollvars == <<p_pc, p_in, p_out, callvars>>

Jobs == 1..Len(images)
Workers == 1..max_workers
Finished(i) == pc[i] \in {"Done", "Raised"}

NoPollCall == [stream |-> [pending |-> 0, final |-> Processing],
               poll_interval |-> default_poll_interval,
               timeout |-> default_timeout]
NoPollRet == PollRet(FALSE, None, None, 0, 0)

\* no call of start_session or download_file on its own
NoCalls ==
    /\ s_in = [exc |-> FALSE, status_code |-> 200, body |-> "session_code"]
    /\ s_out = [exc |-> FALSE, session_code |-> None, err |-> None]
    /\ d_in = [exc |-> FALSE, status_code |-> 200, body |-> "full"]
    /\ d_out = [exc |-> FALSE, err |-> None, file |-> "untouched"]

\* main() up to the creation of the executor, over a listing of n entries
InitBatch(n) ==
    /\ concepts_dir = {DirEntry(k) : k \in 1..n}
    /\ processed_dir = {}
    /\ images = get_image_files(n)
    /\ result_dir = [p \in {out_path_of(DirEntry(k)) : k \in 1..n} |-> "absent"]
    /\ mainpc = "pool"
    /\ submitted = 0
    /\ yielded = {}
    /\ summary = <<>>
    /\ printed = <<>>
    /\ taken = 0
    /\ worker = [w \in Workers |-> 0]
    /\ pc = [i \in 1..Len(get_image_files(n)) |-> "Init"]
    /\ session_data = [i \in 1..Len(get_image_files(n)) |-> None]
    /\ outcome = [i \in 1..Len(get_image_files(n)) |-> None]
    /\ trace = [i \in 1..Len(get_image_files(n)) |-> <<>>]

Init ==
    /\ \E n \in 0..MaxFiles : InitBatch(n)
    /\ p_pc = "idle"
    /\ p_in = NoPollCall
    /\ p_out = NoPollRet
    /\ NoCalls

\* ------------------------------------------------------ process_image
\* the worker thread running job i is free again
Release(i) == worker' = [w \in Workers |-> IF worker[w] = i THEN 0 ELSE worker[w]]

\* process_image returns the row (img, model, status)
Return(i, model, status) ==
    /\ pc' = [pc EXCEPT ![i] = "Done"]
    /\ outcome' = [outcome EXCEPT ![i] = <<images[i], model, status>>]
    /\ Release(i)

\* an exception leaves process_image: the future holds it
Raise(i) ==
    /\ pc' = [pc EXCEPT ![i] = "Raised"]
    /\ Release(i)
    /\ UNCHANGED outcome

\* what a call made by process_image came back with: that it raised, its
\* error text, or `ok`
Event(r, raised, ok) ==
    IF r.exc THEN raised ELSE IF r.err # None THEN r.err[1] ELSE ok

Log(i, event) == trace' = [trace EXCEPT ![i] = Append(@, event)]

\* a worker thread takes the next work item off the executor's queue
worker_take_unpopped(w) ==
    /\ worker[w] = 0
    /\ taken < submitted
    /\ worker' = [worker EXCEPT ![w] = taken + 1]
    /\ pc' = [pc EXCEPT ![taken + 1] = "Submitting"]
    /\ UNCHANGED <<fsvars, mainvars, taken, session_data, outcome, trace, pollvars>>
worker_take_busy(w) ==
    /\ taken < submitted
    /\ taken' = taken + 1
    /\ worker' = [worker EXCEPT ![w] = taken + 1]
    /\ pc' = [pc EXCEPT ![taken + 1] = "Submitting"]
    /\ UNCHANGED <<fsvars, mainvars, session_data, outcome, trace, pollvars>>
worker_take(w) ==
    /\ worker[w] = 0
    /\ taken < submitted
    /\ taken' = taken + 1
    /\ worker' = [worker EXCEPT ![w] = taken + 1]
    /\ pc' = [pc EXCEPT ![taken + 1] = "Submitting"]
    /\ UNCHANGED <<fsvars, mainvars, session_data, outcome, trace, pollvars>>

\* line 134: if err, after start_session
SubmitFailed_ignored(r) == FALSE
SubmitFailed(r) == Truthy(r.err)

\* lines 132-137: start_session and the test of its error
submit_step(i) ==
    /\ pc[i] = "Submitting"
    /\ \E resp \in SubmitResponses :
         LET r == start_session(resp) IN
           /\ Log(i, Event(r, "start_session raised", "session started"))
           /\ IF r.exc
              THEN Raise(i)
              ELSE IF SubmitFailed(r)
              THEN Return(i, None, "error")
              ELSE /\ pc' = [pc EXCEPT ![i] = "Polling"]
                   /\ UNCHANGED <<worker, outcome>>
    /\ UNCHANGED <<fsvars, mainvars, taken, session_data, pollvars>>

\* line 139: if err, after poll_session
PollFailed(r) == Truthy(r.err)

\* line 138: session_data is a local variable of the call of job i
StoreSession_global(i, data) == session_data' = [j \in Jobs |-> data]
StoreSession(i, data) == session_data' = [session_data EXCEPT ![i] = data]

\* a completed session's event says whether it carries a mesh URL
PollEvent(r) ==
    IF ~r.exc /\ r.err = None
    THEN IF Truthy(r.data[1]) THEN "session complete, mesh url"
         ELSE "session complete, no mesh url"
    ELSE Event(r, "poll_session raised", "")

\* lines 138-141: poll_session and the test of its error
poll_step(i) ==
    /\ pc[i] = "Polling"
    /\ \E stream \in PollStreams :
         LET r == default_poll[stream] IN
           /\ Log(i, PollEvent(r))
           /\ IF r.exc
              THEN Raise(i) /\ UNCHANGED session_data
              ELSE IF PollFailed(r)
              THEN Return(i, None, "error") /\ UNCHANGED session_data
              ELSE /\ pc' = [pc EXCEPT ![i] = "Fetching"]
                   /\ StoreSession(i, r.data)
                   /\ UNCHANGED <<worker, outcome>>
    /\ UNCHANGED <<fsvars, mainvars, taken, pollvars>>

\* what download_file leaves at path p
Written(p, file) ==
    result_dir' = IF file = "untouched" THEN result_dir
                  ELSE [result_dir EXCEPT ![p] = file]

\* line 143: if not mesh_url
MeshMissing_ignored(mesh_url) == FALSE
MeshMissing(mesh_url) == ~Truthy(mesh_url)

\* line 149: if err, after download_file
DownloadFailed_ignored(r) == FALSE
DownloadFailed(r) == Truthy(r.err)

\* lines 142-151: the mesh URL, the out path, download_file and its error
fetch_step(i) ==
    /\ pc[i] = "Fetching"
    /\ IF MeshMissing(session_data[i][1])
       THEN /\ Return(i, None, "no_mesh")
            /\ UNCHANGED <<fsvars, trace>>
       ELSE \E resp \in DownloadResponses :
              LET r == download_file(resp) IN
                /\ Written(out_path_of(images[i]), r.file)
                /\ UNCHANGED <<concepts_dir, processed_dir>>
                /\ Log(i, Event(r, "download_file raised", "downloaded"))
                /\ IF r.exc
                   THEN Raise(i)
                   ELSE IF DownloadFailed(r)
                   THEN Return(i, None, "download_error")
                   ELSE /\ pc' = [pc EXCEPT ![i] = "Staging"]
                        /\ UNCHANGED <<worker, outcome>>
    /\ UNCHANGED <<mainvars, taken, session_data, pollvars>>

\* move_file: makedirs and shutil.move of src to PROCESSED_DIR
move_file_skipped(img, res) == UNCHANGED <<concepts_dir, processed_dir>>
move_file(img, res) ==
    IF res = "moved"
    THEN /\ concepts_dir' = concepts_dir \ {img}
         /\ processed_dir' = processed_dir \cup {img}
    ELSE UNCHANGED <<concepts_dir, processed_dir>>

\* lines 152-153: move_file and the success row
stage_step(i) ==
    /\ pc[i] = "Staging"
    /\ \E res \in MoveResults :
         /\ move_file(images[i], res)
         /\ IF res = "moved"
            THEN Return(i, out_path_of(images[i]), "success") /\ Log(i, "moved")
            ELSE Raise(i) /\ Log(i, "move_file raised")
    /\ UNCHANGED <<result_dir, mainvars, taken, session_data, pollvars>>

\* ---------------------------------------------------------------- main
jobvars == <<taken, worker, pc, session_data, outcome, trace>>

\* line 164: executor.submit for the next image
main_submit ==
    /\ mainpc = "pool"
    /\ submitted < Len(images)
    /\ submitted' = submitted + 1
    /\ UNCHANGED <<fsvars, images, mainpc, yielded, summary, printed, jobvars, pollvars>>

\* lines 165-167: as_completed yields the finished future i; its result is
\* appended to summary, or its exception leaves the loop
main_collect(i) ==
    /\ mainpc = "pool"
    /\ submitted = Len(images)
    /\ i \notin yielded
    /\ Finished(i)
    /\ yielded' = yielded \cup {i}
    /\ IF pc[i] = "Done"
       THEN summary' = Append(summary, outcome[i]) /\ UNCHANGED mainpc
       ELSE mainpc' = "unwind" /\ UNCHANGED summary
    /\ UNCHANGED <<fsvars, images, submitted, printed, jobvars, pollvars>>

\* line 163, leaving the with block after the loop ended
main_exit_pool_early ==
    /\ mainpc = "pool"
    /\ submitted = Len(images)
    /\ mainpc' = "print"
    /\ UNCHANGED <<fsvars, images, submitted, yielded, summary, printed, jobvars, pollvars>>
main_exit_pool ==
    /\ mainpc = "pool"
    /\ submitted = Len(images)
    /\ yielded = Jobs
    /\ mainpc' = "print"
    /\ UNCHANGED <<fsvars, images, submitted, yielded, summary, printed, jobvars, pollvars>>

\* line 163, leaving the with block on an exception: shutdown(wait=True)
\* returns when every work item has run, then the exception leaves main
main_unwind ==
    /\ mainpc = "unwind"
    /\ \A i \in Jobs : Finished(i)
    /\ mainpc' = "crashed"
    /\ UNCHANGED <<fsvars, images, submitted, yielded, summary, printed, jobvars, pollvars>>

\* lines 168-171: the summary table
main_print ==
    /\ mainpc = "print"
    /\ printed' = summary
    /\ mainpc' = "done"
    /\ UNCHANGED <<fsvars, images, submitted, yielded, summary, jobvars, pollvars>>

Next ==
    \/ \E w \in Workers : worker_take(w)
    \/ \E i \in Jobs : submit_step(i)
    \/ \E i \in Jobs : poll_step(i)
    \/ \E i \in Jobs : fetch_step(i)
    \/ \E i \in Jobs : stage_step(i)
    \/ main_submit
    \/ \E i \in Jobs : main_collect(i)
    \/ main_exit_pool
    \/ main_unwind
    \/ main_print

Spec == Init /\ [][Next]_vars

\* ------------------------------------------------- poll_session on its own
\* a call of poll_session with any interval and timeout within the bounds,
\* against any stream of answers
InitPoll ==
    /\ InitBatch(0)
    /\ p_pc = "call"
    /\ p_in \in [stream : PollStreams,
                 poll_interval : 1..MaxInterval,
                 timeout : (0 - 1)..MaxTimeout]
    /\ p_out = NoPollRet
    /\ NoCalls

poll_call ==
    /\ p_pc = "call"
    /\ p_out' = poll_session(p_in.stream, p_in.poll_interval, p_in.timeout)
    /\ p_pc' = "returned"
    /\ UNCHANGED <<fsvars, mainvars, jobvars, p_in, callvars>>

NextPoll == poll_call

SpecPoll == InitPoll /\ [][NextPoll]_vars

\* ================================================================ claims
Last(t) == t[Len(t)]
MainEnded == mainpc \in {"done", "crashed"}
Status(i) == outcome[i][3]
Succeeded(i) == pc[i] = "Done" /\ Status(i) = "success"
Relocated(i) == images[i] \in processed_dir
SubmissionEvents == {"start_session raised", "Failed to start session", "Unexpected response"}

\* the failure cause a job's last event stands for
Cause(t) ==
    CASE Last(t) \in {"Failed to start session", "Unexpected response"} -> "SubmissionError"
      [] Last(t) = "Failed to get session status" -> "PollError"
      [] Last(t) = "Session failed." -> "RemoteFailure"
      [] Last(t) = "Timeout waiting for session to complete." -> "Timeout"
      [] Last(t) = "session complete, no mesh url" -> "MissingArtifact"
      [] Last(t) = "Failed to download file" -> "DownloadError"
      [] Last(t) = "moved" -> "Success"
      [] OTHER -> "Exception"
FailureCauses == {"SubmissionError", "PollError", "RemoteFailure", "Timeout",
                  "MissingArtifact", "DownloadError"}

\* C1: when main() has ended, the summary holds exactly one row per
\* enumerated image: as many rows as images, and every image is the image
\* of exactly one row.
C1_SummaryBijection ==
    MainEnded =>
        /\ Len(summary) = Len(images)
        /\ \A i \in Jobs :
             Cardinality({k \in 1..Len(summary) : summary[k][1] = images[i]}) = 1

\* C2: no call of process_image ends in an exception, and main is never
\* left by one: every job's end is a row held by its future.
C2_OutcomesAreValues ==
    /\ mainpc # "crashed"
    /\ \A i \in Jobs : pc[i] # "Raised"

\* C3: main never stops without having printed the summary table, and the
\* printed table has a row for every image of the batch.
C3_SummaryPrinted ==
    mainpc \in {"crashed", "done"} =>
        /\ mainpc = "done"
        /\ \A i \in Jobs : \E k \in 1..Len(printed) : printed[k][1] = images[i]

\* C4: an image is in the processed directory if and only if its job
\* returned the success row; an image that is not there is still in
\* content/concepts.
C4_RelocatedIffSuccess ==
    \A i \in Jobs :
        /\ Relocated(i) <=> Succeeded(i)
        /\ Relocated(i) <=> images[i] \notin concepts_dir

C4_Witness ==
    \E i, j \in Jobs :
        /\ Succeeded(i) /\ Relocated(i)
        /\ pc[j] = "Done" /\ Status(j) = "download_error" /\ ~Relocated(j)

\* C5: a job that returned success went, in this order, through a started
\* session, a complete session carrying a mesh URL, a download without
\* error and the move; and at no moment is an image relocated whose job
\* has not had its download succeed before.
C5_SuccessOrder ==
    \A i \in Jobs :
        /\ Succeeded(i) =>
             trace[i] = <<"session started", "session complete, mesh url",
                          "downloaded", "moved">>
        /\ Relocated(i) =>
             /\ Len(trace[i]) >= 4
             /\ trace[i][3] = "downloaded"
             /\ trace[i][4] = "moved"

C5_Witness ==
    \E i \in Jobs : Succeeded(i) /\ Relocated(i) /\ result_dir[out_path_of(images[i])] = "complete"

\* C6: a job whose submission failed (error status code, a response with
\* no session code, or start_session raising) has made no further call: no
\* poll, no download, no move; it has ended and its image is where it was.
C6_SubmitShortCircuit ==
    \A i \in Jobs :
        (trace[i] # <<>> /\ trace[i][1] \in SubmissionEvents) =>
            /\ Len(trace[i]) = 1
            /\ Finished(i)
            /\ session_data[i] = None
            /\ ~Relocated(i)
            /\ images[i] \in concepts_dir

C6_Witness ==
    \E i, j \in Jobs :
        /\ trace[i] = <<"Unexpected response">> /\ Status(i) = "error"
        /\ trace[j] = <<"Failed to start session">> /\ Status(j) = "error"

\* the end of a job as its own calls' results alone determine it
OwnStatus(t) ==
    CASE Cause(t) = "Success" -> "success"
      [] Cause(t) = "MissingArtifact" -> "no_mesh"
      [] Cause(t) = "DownloadError" -> "download_error"
      [] Cause(t) = "Exception" -> "raised"
      [] OTHER -> "error"

C8_TimeoutAfterExactPolls ==
    (/\ p_pc = "returned"
     /\ poll_sleeps(p_in.stream.final)
     /\ p_in.timeout >= 0
     /\ p_in.timeout % p_in.poll_interval = 0) =>
        /\ ~p_out.exc
        /\ p_out.err = <<"Timeout waiting for session to complete.">>
        /\ p_out.data = None
        /\ p_out.requests = p_in.timeout \div p_in.poll_interval
        /\ p_out.waited = p_in.timeout

C8_Witness ==
    /\ p_pc = "returned"
    /\ poll_sleeps(p_in.stream.final)
    /\ p_in.timeout = 30 /\ p_in.poll_interval = 10
    /\ p_out.requests = 3
    /\ p_out.err = <<"Timeout waiting for session to complete.">>

\* C9: a job whose session completed without a mesh URL (absent or empty)
\* makes no download and no move: once it has left the Fetching state it
\* has returned the no_mesh row, the completed session is its last event,
\* and its image is not relocated.
C9_MissingArtifact ==
    \A i \in Jobs :
        "session complete, no mesh url" \in {trace[i][k] : k \in 1..Len(trace[i])} =>
            /\ pc[i] \in {"Fetching", "Done"}
            /\ Last(trace[i]) = "session complete, no mesh url"
            /\ pc[i] = "Done" => Status(i) = "no_mesh" /\ outcome[i][2] = None
            /\ ~Relocated(i)

C9_Witness ==
    \E i \in Jobs :
        /\ pc[i] = "Done" /\ Status(i) = "no_mesh"
        /\ session_data[i] = <<None>>
        /\ result_dir[out_path_of(images[i])] = "absent"

\* C10: two jobs that ended in different failure causes among the six
\* hold different status values in their rows.
C10_DistinctErrorStatuses ==
    \A i, j \in Jobs :
        (/\ pc[i] = "Done" /\ pc[j] = "Done"
         /\ Cause(trace[i]) \in FailureCauses
         /\ Cause(trace[j]) \in FailureCauses
         /\ Cause(trace[i]) # Cause(trace[j])) =>
            Status(i) # Status(j)

InFlightStates == {"Submitting", "Polling", "Fetching", "Staging"}
InFlight(i) == pc[i] \in InFlightStates
Count(t, events) == Cardinality({k \in 1..Len(t) : t[k] \in events})

\* C11: when main has left the worker-pool block, normally to print the
\* summary or by an exception, every job of the batch has finished: none
\* is waiting, submitting, polling, fetching or staging; on the normal way
\* out the summary already holds the row of every job.
C11_PoolDrainedBeforeSummary ==
    mainpc \in {"print", "done", "crashed"} =>
        /\ \A i \in Jobs : Finished(i) /\ ~InFlight(i)
        /\ \A w \in Workers : worker[w] = 0
        /\ mainpc # "crashed" => Len(summary) = Len(images)

C11_Witness ==
    /\ mainpc = "print"
    /\ Len(images) = 3
    /\ Status(1) = "success" /\ Status(2) = "error" /\ Status(3) = "no_mesh"

\* C12: the images of a batch are pairwise different, the jobs are taken
\* off the queue one by one in order, a job in flight is run by exactly
\* one worker thread and a job not in flight by none, and no job makes
\* more than one submission or more than one move: each image is handed
\* to one call of process_image and relocated at most once.
C12_DispatchedOnce ==
    /\ \A i, j \in Jobs : i # j => images[i] # images[j]
    /\ taken <= submitted /\ submitted <= Len(images)
    /\ \A i \in Jobs :
         /\ pc[i] = "Init" <=> i > taken
         /\ Cardinality({w \in Workers : worker[w] = i}) = (IF InFlight(i) THEN 1 ELSE 0)
         /\ Count(trace[i], SubmissionEvents \cup {"session started"}) <= 1
         /\ Count(trace[i], {"moved", "move_file raised"}) <= 1
         /\ Len(trace[i]) <= 4

C12_Witness ==
    /\ Len(images) = 3
    /\ \A i \in Jobs : Succeeded(i) /\ Relocated(i) /\ Count(trace[i], {"moved"}) = 1

\* ------------------------------------------------ the pool under load
\* a batch with one image more than the pool has threads, against a
\* remote service that is healthy or raises on submission
PoolEvents == {"session started", "start_session raised",
               "session complete, mesh url", "downloaded", "moved"}

Answered(i) == trace'[i] = trace[i] \/ Last(trace'[i]) \in PoolEvents

InitPool ==
    /\ \E n \in 0..(MaxFiles + 1) : InitBatch(n)
    /\ p_pc = "idle"
    /\ p_in = NoPollCall
    /\ p_out = NoPollRet
    /\ NoCalls

NextPool ==
    \/ \E w \in Workers : worker_take(w)
    \/ \E i \in Jobs : submit_step(i) /\ Answered(i)
    \/ \E i \in Jobs : poll_step(i) /\ Answered(i)
    \/ \E i \in Jobs : fetch_step(i) /\ Answered(i)
    \/ \E i \in Jobs : stage_step(i) /\ Answered(i)
    \/ main_submit
    \/ \E i \in Jobs : main_collect(i)
    \/ main_exit_pool
    \/ main_unwind
    \/ main_print

SpecPool == InitPool /\ [][NextPool]_vars

\* C13: at most 3 jobs are in flight at any moment; every busy worker
\* thread runs a job that is in flight and every job in flight is run by
\* exactly one thread, so a thread takes its next image only when the job
\* it ran has reached its end.
C13_AtMostThreeInFlight ==
    /\ Cardinality({i \in Jobs : InFlight(i)}) <= 3
    /\ \A w \in Workers : worker[w] # 0 => InFlight(worker[w])
    /\ \A i \in Jobs :
         InFlight(i) => Cardinality({w \in Workers : worker[w] = i}) = 1

\* three jobs in flight, a fourth submitted and waiting; and a thread
\* that runs the fourth job after the job it ran before has ended
C13_Witness ==
    /\ Len(images) = 4
    /\ pc[4] = "Polling"
    /\ Cardinality({i \in Jobs : InFlight(i)}) = 3
    /\ \E i \in 1..3 : Finished(i)

\* the transitions of the Job Runner the specification allows, with the
\* cause that a transition into Done carries
AllowedStep(from, to, t) ==
    \/ from = "Init" /\ to = "Submitting"
    \/ from = "Submitting" /\ to = "Polling"
    \/ from = "Polling" /\ to = "Fetching"
    \/ from = "Fetching" /\ to = "Staging"
    \/ from = "Staging" /\ to = "Done" /\ Cause(t) = "Success"
    \/ from = "Submitting" /\ to = "Done" /\ Cause(t) = "SubmissionError"
    \/ from = "Polling" /\ to = "Done"
         /\ Cause(t) \in {"PollError", "RemoteFailure", "Timeout"}
    \/ from = "Fetching" /\ to = "Done"
         /\ Cause(t) \in {"MissingArtifact", "DownloadError"}

\* C14: every step of a job is one of the forward transitions Init,
\* Submitting, Polling, Fetching, Staging, Done or one of the listed error
\* exits into Done; a job leaves its last state only into Done.
C14_ForwardOnly ==
    [][\A i \in Jobs : pc'[i] # pc[i] => AllowedStep(pc[i], pc'[i], trace'[i])]_vars

Events(t) == {t[k] : k \in 1..Len(t)}

\* C15: no two jobs of a batch write the same file of the result
\* directory: two different images whose downloads both wrote their
\* artifact have different out paths.
C15_DistinctOutPaths ==
    \A i, j \in Jobs :
        (i # j /\ "downloaded" \in Events(trace[i]) /\ "downloaded" \in Events(trace[j])) =>
            out_path_of(images[i]) # out_path_of(images[j])

\* ------------------------- the program, and its remote calls on their own
\* a run of a batch (one entry fewer than in Init), or one call of
\* start_session or of download_file with any response
InitCalls ==
    \/ /\ \E n \in 0..(MaxFiles - 1) : InitBatch(n)
       /\ p_pc = "idle"
       /\ p_in = NoPollCall
       /\ p_out = NoPollRet
       /\ NoCalls
    \/ /\ InitBatch(0)
       /\ p_in = NoPollCall
       /\ p_out = NoPollRet
       /\ \/ /\ p_pc = "call start_session"
             /\ s_in \in SubmitResponses
             /\ d_in = [exc |-> FALSE, status_code |-> 200, body |-> "full"]
          \/ /\ p_pc = "call download_file"
             /\ d_in \in DownloadResponses
             /\ s_in = [exc |-> FALSE, status_code |-> 200, body |-> "session_code"]
       /\ s_out = [exc |-> FALSE, session_code |-> None, err |-> None]
       /\ d_out = [exc |-> FALSE, err |-> None, file |-> "untouched"]

start_session_call ==
    /\ p_pc = "call start_session"
    /\ s_out' = start_session(s_in)
    /\ p_pc' = "start_session returned"
    /\ UNCHANGED <<fsvars, mainvars, jobvars, p_in, p_out, s_in, d_in, d_out>>

download_file_call ==
    /\ p_pc = "call download_file"
    /\ d_out' = download_file(d_in)
    /\ p_pc' = "download_file returned"
    /\ UNCHANGED <<fsvars, mainvars, jobvars, p_in, p_out, s_in, s_out, d_in>>

NextCalls ==
    \/ Next
    \/ start_session_call
    \/ download_file_call

SpecCalls == InitCalls /\ [][NextCalls]_vars

SubmitSucceeded(r) == ~r.exc /\ r.err = None /\ Truthy(r.session_code)

\* C16: start_session returns a session code exactly when the response
\* has status 200 or 201 and carries a non-empty session code; in every
\* other case it returns no session code, and for an error status, missing
\* data and a missing or empty session code it returns an error text
\* without raising.  In a batch every job that has left Submitting has made
\* exactly one submission, and a submission error ends it with the row
\* (img, None, error).
C16_SubmitContract ==
    /\ p_pc = "start_session returned" =>
         /\ SubmitSucceeded(s_out) <=>
              (~s_in.exc /\ s_in.status_code \in {200, 201} /\ s_in.body = "session_code")
         /\ ~SubmitSucceeded(s_out) => s_out.session_code = None
         /\ (/\ ~s_in.exc
             /\ \/ s_in.status_code \notin {200, 201}
                \/ s_in.body \in {"no_data", "no_session_code", "empty_session_code"}) =>
                ~s_out.exc /\ Truthy(s_out.err)
    /\ \A i \in Jobs :
         /\ Count(trace[i], SubmissionEvents \cup {"session started"})
              = (IF pc[i] \in {"Init", "Submitting"} THEN 0 ELSE 1)
         /\ (trace[i] # <<>>
             /\ trace[i][1] \in {"Failed to start session", "Unexpected response"}) =>
                pc[i] = "Done" /\ outcome[i] = <<images[i], None, "error">>

C16_Witness ==
    /\ p_pc = "start_session returned"
    /\ s_in = [exc |-> FALSE, status_code |-> 200, body |-> "empty_session_code"]
    /\ s_out.err = <<"Unexpected response">>
    /\ s_out.session_code = None

\* C17: when a status request of poll_session is answered with a status
\* code other than 200 before the timeout, poll_session returns the error
\* "Failed to get session status" at once: that request is its last, and
\* no sleep follows it.
C17_NonSuccessStatusIsFatal ==
    (/\ p_pc = "returned"
     /\ ~p_in.stream.final.exc
     /\ p_in.stream.final.status_code # 200
     /\ p_in.stream.pending * p_in.poll_interval < p_in.timeout) =>
        /\ ~p_out.exc
        /\ p_out.data = None
        /\ p_out.err = <<"Failed to get session status">>
        /\ p_out.requests = p_in.stream.pending + 1
        /\ p_out.waited = p_in.stream.pending * p_in.poll_interval

C17_Witness ==
    /\ p_pc = "returned"
    /\ p_in.stream.pending = 1
    /\ p_in.stream.final.status_code = 500
    /\ p_in.poll_interval = 10 /\ p_in.timeout = 30
    /\ p_out.requests = 2
    /\ p_out.err = <<"Failed to get session status">>

\* C18: in the row a finished job returned, the model path is present only
\* when the status is success, and whenever the status is not success the
\* row carries a non-empty detail of the cause after its three fields.
C18_RecordDetail ==
    \A i \in Jobs :
        pc[i] = "Done" =>
            /\ outcome[i][2] # None => Status(i) = "success"
            /\ Status(i) # "success" =>
                 /\ Len(outcome[i]) >= 4
                 /\ Truthy(outcome[i][4])

\* C19: after download_file has ended, a file is at the out path only if
\* download_file returned success (no exception, no error text), and that
\* file is the complete one: a failed or interrupted transfer leaves
\* nothing there.
C19_NoPartialFile ==
    p_pc = "download_file returned" =>
        /\ d_out.file # "untouched" => ~d_out.exc /\ d_out.err = None
        /\ d_out.file # "partial"

\* ceil(a / b) for b > 0
Ceil(a, b) == 0 - ((0 - a) \div b)

TimedOut(r) == ~r.exc /\ r.err = <<"Timeout waiting for session to complete.">>

\* what holds of the wait and of a non-positive timeout in both readings
\* of the request bound
PollWaitBound ==
    /\ (TimedOut(p_out) /\ p_in.timeout % p_in.poll_interval # 0) =>
         /\ p_out.waited = Ceil(p_in.timeout, p_in.poll_interval) * p_in.poll_interval
         /\ p_out.waited > p_in.timeout
         /\ p_out.waited - p_in.timeout < p_in.poll_interval
    /\ p_in.timeout <= 0 =>
         /\ TimedOut(p_out)
         /\ p_out.requests = 0
         /\ p_out.waited = 0

====
